---- MODULE Spec2Model ----
(***************************************************************************)
(* A model of the skill-relationship analytics engine of skill_gap_analysis *)
(* (src/core/analysis.py and src/core/graph_analysis.py).                   *)
(*                                                                          *)
(* The engine is a collection of synchronous functions over one batch of    *)
(* postings.  A behaviour of the model is: the extraction collaborator      *)
(* hands over a batch (Init), then the caller invokes one engine operation  *)
(* on it (one action per engine function modelled); the state after it holds *)
(* the arguments of the call, the value returned and the caller's own       *)
(* objects as the call left them.  The Bridge-Skill Selector consumes the   *)
(* table of the Centrality Engine, so its call follows compute_centralities. *)
(*                                                                          *)
(* Python floats are modelled as exact fractions <<num, den>>; numeric      *)
(* proficiency levels are given in tenths so that int() truncates.          *)
(* networkx / scikit-learn routines are modelled by their documented        *)
(* results (see the comment at each operator).                              *)
(***************************************************************************)
EXTENDS Integers, Sequences, FiniteSets, TLC

VARIABLES
    jobs_df,   \* the caller's postings table (DataFrame), a sequence of records
    rows,      \* the caller's list of posting dicts, as handed to compute_skill_gap
    call,      \* the engine call made: [op |-> ..., arguments ...]
    result     \* the value the call returned

vars == <<jobs_df, rows, call, result>>

--------------------------------------------------------------------------
(* Bounds of the model *)

MaxLen == 2       \* entries in one posting's skills_detected list
MaxK == 3         \* largest requested cluster count
MaxTopN == 3      \* largest top_n asked of the Bridge-Skill Selector

(* Skill names of the taxonomy, in ascending string order (sorted()). *)
SortedNames == <<"Excel", "Python", "SQL">>

Range(s) == {s[i] : i \in DOMAIN s}

SkillNames == Range(SortedNames)

(* What a skills_detected list may hold: skill names and the empty string. *)
Tokens == SkillNames \cup {""}

(* Posting identifiers; one of them is also the name of a skill.  An       *)
(* identifier is unique within a batch, so a batch holds at most one       *)
(* posting per identifier.                                                 *)
JobIds == {"1", "Python"}

SeqsUpTo(S, n) == UNION {[1..k -> S] : k \in 0..n}

Postings == [job_id : JobIds, skills_detected : SeqsUpTo(Tokens, MaxLen)]

(* Position of a skill name in ascending string order; "" sorts first. *)
Rank(s) == IF s = "" THEN 0 ELSE CHOOSE i \in DOMAIN SortedNames : SortedNames[i] = s

--------------------------------------------------------------------------
(* Sequence and fraction helpers *)

RECURSIVE SumSeq(_)
SumSeq(s) == IF s = <<>> THEN 0 ELSE s[1] + SumSeq(Tail(s))

(* s without repeated elements, keeping first occurrences (dict key order). *)
RECURSIVE FirstSeen(_)
FirstSeen(s) ==
    IF s = <<>> THEN <<>>
    ELSE LET r == FirstSeen(SubSeq(s, 1, Len(s) - 1))
             x == s[Len(s)]
         IN IF x \in Range(r) THEN r ELSE Append(r, x)

RECURSIVE Flatten(_)
Flatten(ss) == IF ss = <<>> THEN <<>> ELSE ss[1] \o Flatten(Tail(ss))

(* All orders in which a Python set S can be iterated. *)
Perms(S) == {p \in [1..Cardinality(S) -> S] : Range(p) = S}

Frac(n, d) == <<n, d>>
FracEq(a, b) == a[1] * b[2] = b[1] * a[2]
FracLe(a, b) == a[1] * b[2] <= b[1] * a[2]
FracAdd(a, b) == <<a[1] * b[2] + b[1] * a[2], a[2] * b[2]>>

RECURSIVE FracSum(_)
FracSum(s) == IF s = <<>> THEN <<0, 1>> ELSE FracAdd(s[1], FracSum(Tail(s)))

RECURSIVE SetToSeq(_)
SetToSeq(S) ==
    IF S = {} THEN <<>>
    ELSE LET x == CHOOSE y \in S : TRUE IN <<x>> \o SetToSeq(S \ {x})

--------------------------------------------------------------------------
(* networkx.Graph: the nodes in insertion order, each node's node_type     *)
(* attribute, the undirected edges ({u, v}; a self-loop is {u}) and each   *)
(* edge's weight attribute (NoWeight when the edge carries none).          *)

NoWeight == -1
NoType == "unset"

EmptyGraph ==
    [nodes |-> <<>>, node_type |-> [n \in {} |-> NoType],
     edges |-> {}, weight |-> [e \in {} |-> NoWeight]]

NodeSet(g) == Range(g.nodes)

(* Graph.add_node(n, node_type=t): a new node is appended; an existing     *)
(* node keeps its place and has the attribute overwritten.                 *)
add_node(g, n, t) ==
    LET ns == IF n \in NodeSet(g) THEN g.nodes ELSE Append(g.nodes, n)
    IN [g EXCEPT !.nodes = ns,
                 !.node_type = [m \in Range(ns) |->
                                   IF m = n THEN t ELSE g.node_type[m]]]

(* Graph.add_edge(u, v, **attr): missing endpoints are added without       *)
(* attributes; an existing edge is kept and its attributes updated.        *)
add_edge(g, u, v, w) ==
    LET n1 == IF u \in NodeSet(g) THEN g.nodes ELSE Append(g.nodes, u)
        n2 == IF v \in Range(n1) THEN n1 ELSE Append(n1, v)
        es == g.edges \cup {{u, v}}
    IN [nodes |-> n2,
        node_type |-> [m \in Range(n2) |->
                          IF m \in NodeSet(g) THEN g.node_type[m] ELSE NoType],
        edges |-> es,
        weight |-> [e \in es |->
                       IF e = {u, v}
                       THEN (IF w = NoWeight /\ e \in g.edges THEN g.weight[e] ELSE w)
                       ELSE g.weight[e]]]

(* str(): identifiers of the model are strings already. *)
Str(x) == x

(* graph_analysis.py 37-40: the inner loop over one posting's skills. *)
RECURSIVE AddSkills(_, _, _)
AddSkills(B, job_id, skills) ==
    IF skills = <<>> THEN B
    ELSE LET skill == skills[1]
             B1 == IF skill # ""
                   THEN add_edge(add_node(B, skill, "skill"), job_id, skill, NoWeight)
                   ELSE B
         IN AddSkills(B1, job_id, Tail(skills))

(* graph_analysis.py 25-40: the loop over the postings. *)
RECURSIVE AddJobs(_, _)
AddJobs(B, jobs) ==
    IF jobs = <<>> THEN B
    ELSE LET job_id == Str(jobs[1].job_id)
             B1 == IF job_id # ""
                   THEN AddSkills(add_node(B, job_id, "job"), job_id,
                                  jobs[1].skills_detected)
                   ELSE B
         IN AddJobs(B1, Tail(jobs))

build_bipartite_graph(jobs) == AddJobs(EmptyGraph, jobs)

(* graph_analysis.py 70: list(set([s for s in skills if s])).  The set is  *)
(* iterated in hash order, which the program does not control: the order   *)
(* is an argument (one of Perms of the set).                               *)
NonEmpty(s) == s # ""

DedupSkills(skills) == Range(SelectSeq(skills, NonEmpty))

(* The list with the empty strings dropped but its repeats kept. *)
KeepRepeats(skills) == {SelectSeq(skills, NonEmpty)}

SetOrders(skills) == Perms(DedupSkills(skills))

(* tuple(sorted([skill1, skill2])) *)
SortedPair(a, b) == IF Rank(a) <= Rank(b) THEN <<a, b>> ELSE <<b, a>>

(* graph_analysis.py 73-76: the pairs one posting adds to the counter, in  *)
(* loop order; `skills` is the de-duplicated list.                         *)
RECURSIVE PairsFrom(_, _, _)
PairsFrom(skills, i, j) ==
    IF i > Len(skills) THEN <<>>
    ELSE IF j > Len(skills) THEN PairsFrom(skills, i + 1, i + 2)
    ELSE <<SortedPair(skills[i], skills[j])>> \o PairsFrom(skills, i, j + 1)

PairsOf(skills) == PairsFrom(skills, 1, 2)

(* collections.Counter over the pairs: keys in first-seen order and the    *)
(* number of times each pair was counted.                                  *)
Occurrences(s, x) == Cardinality({i \in DOMAIN s : s[i] = x})

RECURSIVE AddEdges(_, _, _)
AddEdges(G, keys, counted) ==
    IF keys = <<>> THEN G
    ELSE AddEdges(add_edge(G, keys[1][1], keys[1][2], Occurrences(counted, keys[1])),
                  Tail(keys), counted)

(* graph_analysis.py 57-82.  orders[i] is the iteration order of posting   *)
(* i's de-duplicated skill set.                                            *)
build_skill_cooccurrence_graph(jobs, orders) ==
    LET counted == Flatten([i \in DOMAIN jobs |-> PairsOf(orders[i])])
    IN AddEdges(EmptyGraph, FirstSeen(counted), counted)

(* Every choice of iteration orders for the postings of a table. *)
RECURSIVE OrderChoices(_)
OrderChoices(jobs) ==
    IF jobs = <<>> THEN {<<>>}
    ELSE {<<o>> \o rest : o \in SetOrders(jobs[1].skills_detected),
                          rest \in OrderChoices(Tail(jobs))}


--------------------------------------------------------------------------
(* Centrality Engine.  The networkx routines are modelled by the values    *)
(* they document: degree_centrality, betweenness_centrality (Brandes,      *)
(* normalized), closeness_centrality (Wasserman-Faust scaled).             *)

Neighbors(g, u) == {v \in NodeSet(g) : {u, v} \in g.edges}

(* Graph.degree: a self-loop counts twice. *)
Degree(g, u) ==
    Cardinality(Neighbors(g, u) \ {u}) + (IF {u} \in g.edges THEN 2 ELSE 0)

(* nx.degree_centrality: 1 for every node when len(G) <= 1, else d/(n-1). *)
degree_centrality(g) ==
    LET n == Len(g.nodes)
    IN [u \in NodeSet(g) |-> IF n <= 1 THEN Frac(1, 1) ELSE Frac(Degree(g, u), n - 1)]

(* The weights of the graph never looked at. *)
WeightsIgnored(g) == FALSE

(* graph_analysis.py 102-106: the first edge's data holds a "weight" key. *)
has_weights(g) ==
    IF g.edges # {}
    THEN LET sample_edge == CHOOSE e \in g.edges : TRUE
         IN g.weight[sample_edge] # NoWeight
    ELSE FALSE

EdgeLen(g, e, weighted) == IF weighted THEN g.weight[e] ELSE 1

(* All simple paths that extend `path`. *)
RECURSIVE PathsFrom(_, _)
PathsFrom(g, path) ==
    {path} \cup UNION {PathsFrom(g, Append(path, v)) :
                          v \in Neighbors(g, path[Len(path)]) \ Range(path)}

PathLen(g, p, weighted) ==
    SumSeq([i \in 1..(Len(p) - 1) |-> EdgeLen(g, {p[i], p[i + 1]}, weighted)])

Min(S) == CHOOSE x \in S : \A y \in S : x <= y

(* Among the simple paths `from_s` out of one node, the shortest ones that *)
(* end in t (empty when t cannot be reached).                              *)
ShortestPaths(g, from_s, t, weighted) ==
    LET st == {p \in from_s : p[Len(p)] = t}
    IN IF st = {} THEN {}
       ELSE LET d == Min({PathLen(g, p, weighted) : p \in st})
            IN {p \in st : PathLen(g, p, weighted) = d}

Interior(p) == {p[i] : i \in 2..(Len(p) - 1)}

(* The one element of a singleton set. *)
Only(S) == CHOOSE x \in S : TRUE

NodePairs(g) == {pr \in SUBSET NodeSet(g) : Cardinality(pr) = 2}

(* For every pair of nodes, the shortest paths between them. *)
PairShortestPaths(g, weighted) ==
    [pr \in NodePairs(g) |->
        LET s == CHOOSE x \in pr : TRUE
            t == CHOOSE x \in pr : x # s
        IN ShortestPaths(g, PathsFrom(g, <<s>>), t, weighted)]

(* The sum over the pairs s, t (neither of them v) of the share of         *)
(* shortest s-t paths that pass through v.                                 *)
PairDependency(g, sp, v) ==
    LET pairs == SetToSeq({pr \in DOMAIN sp : v \notin pr /\ sp[pr] # {}})
    IN FracSum([i \in DOMAIN pairs |->
                   Frac(Cardinality({p \in sp[pairs[i]] : v \in Interior(p)}),
                        Cardinality(sp[pairs[i]]))])

(* nx.betweenness_centrality(G, weight=...): the pair dependency of v      *)
(* times 2/((n-1)(n-2)); not rescaled when n <= 2.                         *)
betweenness_centrality(g, weighted) ==
    LET n == Len(g.nodes)
    IN Only({[v \in NodeSet(g) |->
                 Only({IF n <= 2 THEN raw ELSE Frac(2 * raw[1], raw[2] * (n - 1) * (n - 2)) :
                          raw \in {PairDependency(g, sp, v)}})] :
                sp \in {PairShortestPaths(g, weighted)}})

(* The distance from the start of the simple paths `paths` to each node    *)
(* they reach (the start included, at distance 0).                         *)
Distances(g, paths, weighted) ==
    LET reach == SetToSeq({p[Len(p)] : p \in paths})
    IN [i \in DOMAIN reach |->
           Min({PathLen(g, p, weighted) : p \in {q \in paths : q[Len(q)] = reach[i]}})]

(* nx.closeness_centrality(G, distance=...): (r-1)/totsp scaled by         *)
(* (r-1)/(n-1), where r is the number of nodes reachable from u (u         *)
(* included) and totsp the sum of the distances to them; 0 when totsp = 0. *)
closeness_centrality(g, weighted) ==
    LET n == Len(g.nodes)
    IN [u \in NodeSet(g) |->
           Only({IF SumSeq(sp) > 0 /\ n > 1
                 THEN Frac((Len(sp) - 1) * (Len(sp) - 1), SumSeq(sp) * (n - 1))
                 ELSE Frac(0, 1) :
                    sp \in {Distances(g, PathsFrom(g, <<u>>), weighted)}})]

(* nx.eigenvector_centrality(G, max_iter=1000): power iteration on A + I   *)
(* from the all-ones vector.  The model keeps the sign of each value: 1    *)
(* (positive) when the iteration converges.  Whether it converges within   *)
(* max_iter on a graph with edges is an outcome of the call; on a graph    *)
(* without edges the vector is its own image and the call returns          *)
(* 1/sqrt(n) for every node.  "raised" is PowerIterationFailedConvergence. *)
EigOutcomes(g) ==
    IF g.edges = {} THEN {"converged"} ELSE {"converged", "raised"}

eigenvector_centrality(g, outcome) ==
    [raised |-> outcome # "converged", values |-> [u \in NodeSet(g) |-> 1]]

(* graph_analysis.py 136-139: dict(graph.degree(weight="weight")). *)
weighted_degree(g) ==
    [u \in NodeSet(g) |->
        IF has_weights(g)
        THEN SumSeq([i \in DOMAIN SetToSeq(Neighbors(g, u)) |->
                        LET v == SetToSeq(Neighbors(g, u))[i]
                        IN IF v = u THEN 2 * g.weight[{u}] ELSE g.weight[{u, v}]])
        ELSE Degree(g, u)]

(* DataFrame.sort_values("degree", ascending=False): an insertion sort for *)
(* tables of this size, so rows of equal degree keep their order.          *)
RECURSIVE InsertByDegree(_, _)
InsertByDegree(sorted, row) ==
    IF sorted = <<>> THEN <<row>>
    ELSE LET last == sorted[Len(sorted)]
         IN IF FracLe(row.degree, last.degree) THEN Append(sorted, row)
            ELSE Append(InsertByDegree(SubSeq(sorted, 1, Len(sorted) - 1), row), last)

RECURSIVE SortByDegree(_)
SortByDegree(rs) ==
    IF rs = <<>> THEN <<>>
    ELSE InsertByDegree(SortByDegree(SubSeq(rs, 1, Len(rs) - 1)), rs[Len(rs)])

(* graph_analysis.py 128-133: weighted attempt, unweighted attempt, zeros. *)
EigenvectorColumn(g, eig1, eig2) ==
    IF ~eigenvector_centrality(g, eig1).raised THEN eigenvector_centrality(g, eig1).values
    ELSE IF ~eigenvector_centrality(g, eig2).raised
         THEN eigenvector_centrality(g, eig2).values
         ELSE [u \in NodeSet(g) |-> 0]

(* graph_analysis.py 95-152.  eig1, eig2: the outcomes of the two          *)
(* eigenvector attempts.  A table is its columns and its rows.             *)
compute_centralities(g, eig1, eig2) ==
    IF Len(g.nodes) = 0
    THEN [columns |-> <<"node", "degree", "betweenness", "closeness", "eigenvector">>,
          rows |-> <<>>]
    ELSE LET degree_cent == degree_centrality(g)
             betweenness_cent ==
                 IF g.edges # {} THEN betweenness_centrality(g, has_weights(g))
                 ELSE [u \in NodeSet(g) |-> Frac(0, 1)]
             closeness_cent == closeness_centrality(g, has_weights(g))
             eigenvector_cent == EigenvectorColumn(g, eig1, eig2)
             wdeg == weighted_degree(g)
         IN [columns |-> <<"node", "degree", "betweenness", "closeness",
                           "eigenvector", "weighted_degree">>,
             rows |-> SortByDegree([i \in DOMAIN g.nodes |->
                         [node |-> g.nodes[i],
                          degree |-> degree_cent[g.nodes[i]],
                          betweenness |-> betweenness_cent[g.nodes[i]],
                          closeness |-> closeness_cent[g.nodes[i]],
                          eigenvector |-> eigenvector_cent[g.nodes[i]],
                          weighted_degree |-> wdeg[g.nodes[i]]]])]

--------------------------------------------------------------------------
(* Bridge-Skill Selector *)

(* pd.DataFrame(): no columns, no rows. *)
EmptyDataFrame == [columns |-> <<>>, rows |-> <<>>]

(* The dtype of the betweenness column.  The table of the empty graph is   *)
(* pd.DataFrame(columns=[...]) (graph_analysis.py 96): it is built without *)
(* data, so its columns have dtype object.  A table built from the lists   *)
(* of floats (142-152) has a float64 column.                               *)
BetweennessDtype(table) == IF table.rows = <<>> THEN "object" ELSE "float64"

(* The order nlargest(n, "betweenness") gives (keep="first"): descending   *)
(* betweenness, rows of equal betweenness in the order of the table.       *)
RECURSIVE InsertByBetweenness(_, _)
InsertByBetweenness(sorted, row) ==
    IF sorted = <<>> THEN <<row>>
    ELSE LET last == sorted[Len(sorted)]
         IN IF FracLe(row.betweenness, last.betweenness) THEN Append(sorted, row)
            ELSE Append(InsertByBetweenness(SubSeq(sorted, 1, Len(sorted) - 1), row), last)

RECURSIVE SortByBetweenness(_)
SortByBetweenness(rs) ==
    IF rs = <<>> THEN <<>>
    ELSE InsertByBetweenness(SortByBetweenness(SubSeq(rs, 1, Len(rs) - 1)), rs[Len(rs)])

(* The first n rows of a sequence of rows; none when n <= 0. *)
FirstRows(rs, n) == SubSeq(rs, 1, IF n < Len(rs) THEN n ELSE Len(rs))

(* DataFrame.nlargest(n, "betweenness").  pandas checks the dtype of the   *)
(* column before it selects anything and raises TypeError ("Column         *)
(* 'betweenness' has dtype object, cannot use method 'nlargest' with this  *)
(* dtype") for a column that is neither numeric nor datetime-like.         *)
nlargest(table, n) ==
    IF BetweennessDtype(table) = "object"
    THEN [raised |-> TRUE, exception |-> "TypeError", table |-> EmptyDataFrame]
    ELSE [raised |-> FALSE, exception |-> "none",
          table |-> [columns |-> table.columns,
                     rows |-> FirstRows(SortByBetweenness(table.rows), n)]]

(* bridge_skills[["node", "betweenness", "degree"]] *)
ProjectBridgeColumns(table) ==
    [columns |-> <<"node", "betweenness", "degree">>,
     rows |-> [i \in DOMAIN table.rows |->
                  [node |-> table.rows[i].node,
                   betweenness |-> table.rows[i].betweenness,
                   degree |-> table.rows[i].degree]]]

(* graph_analysis.py 222-238.  The value is the frame returned, or the     *)
(* exception that leaves the function.                                     *)
get_bridge_skills(centralities_df, top_n) ==
    IF "betweenness" \notin Range(centralities_df.columns)
    THEN [raised |-> FALSE, exception |-> "none", table |-> EmptyDataFrame]
    ELSE LET bridge_skills == nlargest(centralities_df, top_n)
         IN IF bridge_skills.raised THEN bridge_skills
            ELSE [raised |-> FALSE, exception |-> "none",
                  table |-> ProjectBridgeColumns(bridge_skills.table)]

(* A centrality table whose betweenness column the caller has dropped. *)
IsNotBetweenness(c) == c # "betweenness"

WithoutBetweenness(table) ==
    [columns |-> SelectSeq(table.columns, IsNotBetweenness),
     rows |-> [i \in DOMAIN table.rows |->
                  [node |-> table.rows[i].node,
                   degree |-> table.rows[i].degree,
                   closeness |-> table.rows[i].closeness,
                   eigenvector |-> table.rows[i].eigenvector,
                   weighted_degree |-> table.rows[i].weighted_degree]]]


--------------------------------------------------------------------------
(* Community Detector *)

(* Graph.is_weighted(): networkx.Graph has no such method (is_weighted is  *)
(* a function of the networkx module), so evaluating the call raises       *)
(* AttributeError before the modularity routine is entered.                *)
is_weighted(graph) == [raised |-> TRUE, exception |-> "AttributeError"]

(* What a modularity routine can answer for a graph with edges: a          *)
(* labelling of the nodes by community (each label sequence numbers the    *)
(* communities from 0 in order of first appearance) or an exception.       *)
MaxLabel(l) == IF l = <<>> THEN -1 ELSE CHOOSE m \in Range(l) : \A x \in Range(l) : x <= m

RECURSIVE CommunityLabelings(_)
CommunityLabelings(n) ==
    IF n = 0 THEN {<<>>}
    ELSE UNION {{Append(l, c) : c \in 0..(MaxLabel(l) + 1)} : l \in CommunityLabelings(n - 1)}

ModularityOutcomes(graph) ==
    IF is_weighted(graph).raised
    THEN {[raised |-> FALSE, labels |-> <<>>]}     \* the routine is never entered
    ELSE {[raised |-> TRUE, labels |-> <<>>]}
            \cup {[raised |-> FALSE, labels |-> l] :
                     l \in CommunityLabelings(Len(graph.nodes))}

IndexOf(s, x) == CHOOSE i \in DOMAIN s : s[i] = x

(* The ids of the fallback numbered one too low. *)
FallbackFromMinusOne(graph) ==
    [node \in NodeSet(graph) |-> IndexOf(graph.nodes, node) - 2]

(* graph_analysis.py 195: {node: i for i, node in enumerate(graph.nodes())} *)
SingletonFallback(graph) ==
    [node \in NodeSet(graph) |-> IndexOf(graph.nodes, node) - 1]

(* graph_analysis.py 166-197.  louvain_importable: whether python-louvain  *)
(* is installed; lib: what the modularity routine answers when it is       *)
(* called.  The value holds the returned dict and how it was obtained.     *)
detect_communities(graph, algorithm, louvain_importable, lib) ==
    IF Len(graph.nodes) = 0 \/ graph.edges = {}
    THEN [communities |-> [node \in NodeSet(graph) |-> 0],
          path |-> "default", modularity_called |-> FALSE, modularity_raised |-> FALSE]
    ELSE LET routine == IF algorithm = "louvain" /\ louvain_importable
                        THEN "best_partition"
                        ELSE "greedy_modularity_communities"
             weight_arg == is_weighted(graph)
             called == ~weight_arg.raised
         IN IF weight_arg.raised \/ lib.raised
            THEN [communities |-> SingletonFallback(graph), path |-> "fallback",
                  modularity_called |-> called,
                  modularity_raised |-> called /\ lib.raised]
            ELSE [communities |-> [node \in NodeSet(graph) |->
                                      lib.labels[IndexOf(graph.nodes, node)]],
                  path |-> routine,
                  modularity_called |-> TRUE, modularity_raised |-> FALSE]


--------------------------------------------------------------------------
(* Skill-Gap Scorer.  A posting dict is a function from its keys to their  *)
(* values; skill_levels is a dict from skill to a level: a number, given   *)
(* in tenths (kind "num", tenths 25 is 2.5), or a string (kind "str").     *)

(* analysis.py 23-28 *)
level_name_to_numeric ==
    [name \in {"Basic", "Intermediate", "Advanced", "Expert"} |->
        CASE name = "Basic" -> 1
          [] name = "Intermediate" -> 2
          [] name = "Advanced" -> 3
          [] name = "Expert" -> 4]

(* int(level): truncation of a non-negative number. *)
IntOf(level) == level.tenths \div 10

(* analysis.py 30-41 *)
get_numeric_level(skill_levels, skill) ==
    IF skill \notin DOMAIN skill_levels THEN 4
    ELSE LET level == skill_levels[skill]
         IN IF level.kind = "num" THEN IntOf(level)
            ELSE IF level.name \in DOMAIN level_name_to_numeric
                 THEN level_name_to_numeric[level.name]
                 ELSE 4

(* The entries of the list the user has, a repeated skill counted again. *)
CountListEntries(skills_detected, user_skills) ==
    Cardinality({i \in DOMAIN skills_detected : skills_detected[i] \in user_skills})

(* analysis.py 51: len(job_sk & user_skills) *)
UserHasCount(skills_detected, user_skills) ==
    Cardinality(Range(skills_detected) \cap user_skills)

(* analysis.py 47-86: the keys one iteration of the loop writes into row. *)
ScoreRow(row, user_skills, skill_levels) ==
    LET job_sk == Range(row["skills_detected"])
        n_skills_job == Cardinality(job_sk)
        n_skills_user_has == UserHasCount(row["skills_detected"], user_skills)
        matched == SetToSeq(job_sk \cap user_skills)
        weights == [i \in DOMAIN matched |->
                       Frac(get_numeric_level(skill_levels, matched[i]), 4)]
        weighted_match == FracSum(weights)
        total_weight == Cardinality(job_sk)
        matched_levels == [i \in DOMAIN matched |->
                              get_numeric_level(skill_levels, matched[i])]
    IN ("n_skills_job" :> n_skills_job)
       @@ ("n_skills_user_has" :> n_skills_user_has)
       @@ ("match_ratio" :>
              IF n_skills_job > 0 THEN Frac(n_skills_user_has, n_skills_job)
              ELSE Frac(0, 1))
       @@ ("weighted_match_ratio" :>
              IF total_weight > 0
              THEN Frac(weighted_match[1], weighted_match[2] * total_weight)
              ELSE Frac(0, 1))
       @@ ("avg_skill_level" :>
              IF matched_levels # <<>>
              THEN Frac(SumSeq(matched_levels), Len(matched_levels))
              ELSE Frac(0, 1))
       @@ row

(* Counter.most_common(): descending count, equal counts in first-seen     *)
(* order (a stable sort).                                                  *)
RECURSIVE InsertByCount(_, _)
InsertByCount(sorted, e) ==
    IF sorted = <<>> THEN <<e>>
    ELSE LET last == sorted[Len(sorted)]
         IN IF e.count <= last.count THEN Append(sorted, e)
            ELSE Append(InsertByCount(SubSeq(sorted, 1, Len(sorted) - 1), e), last)

RECURSIVE SortByCount(_)
SortByCount(es) ==
    IF es = <<>> THEN <<>>
    ELSE InsertByCount(SortByCount(SubSeq(es, 1, Len(es) - 1)), es[Len(es)])

most_common(all_skills) ==
    LET keys == FirstSeen(all_skills)
    IN SortByCount([i \in DOMAIN keys |->
                       [skill |-> keys[i], count |-> Occurrences(all_skills, keys[i])]])

(* analysis.py 88-102 *)
MissingSkills(rs, user_skills) ==
    LET all_skills == Flatten([i \in DOMAIN rs |-> rs[i]["skills_detected"]])
        freq == most_common(all_skills)
        NotOwned(e) == e.skill \notin user_skills
        kept == SelectSeq(freq, NotOwned)
    IN [i \in DOMAIN kept |->
           [skill |-> kept[i].skill, count |-> kept[i].count, priority |-> kept[i].count]]

(* analysis.py 46-86: the loop assigns into the dicts of the caller's list. *)
ScoredRows(rs, user_skills, skill_levels) ==
    [i \in DOMAIN rs |-> ScoreRow(rs[i], user_skills, skill_levels)]

--------------------------------------------------------------------------
(* Clustering Engine *)

AllSkills(jobs) == UNION {Range(jobs[i].skills_detected) : i \in DOMAIN jobs}

(* sorted(list(all_skills)) *)
SortedSkills(jobs) ==
    LET S == AllSkills(jobs)
    IN [i \in 1..Cardinality(S) |->
           CHOOSE x \in S : Cardinality({y \in S : Rank(y) < Rank(x)}) = i - 1]

(* analysis.py 142-159: the binary jobs x skills matrix. *)
SkillMatrix(jobs) ==
    LET all_skills == SortedSkills(jobs)
    IN [i \in DOMAIN jobs |->
           [j \in DOMAIN all_skills |->
               IF all_skills[j] \in Range(jobs[i].skills_detected) THEN 1 ELSE 0]]

(* KMeans(n_clusters).fit_predict on the standardized matrix: one label in *)
(* 0..n_clusters-1 per row, the nearest centre, so equal rows get equal    *)
(* labels (StandardScaler maps each column by an affine map and keeps      *)
(* equal rows equal).  Which labelling comes out is the library's choice.  *)
KMeansOutcomes(matrix, n_clusters) ==
    {l \in [DOMAIN matrix -> 0..(n_clusters - 1)] :
        \A i, j \in DOMAIN matrix : matrix[i] = matrix[j] => l[i] = l[j]}

MinOf(a, b) == IF a <= b THEN a ELSE b

WithCluster(jobs, clusters) ==
    [i \in DOMAIN jobs |->
        [job_id |-> jobs[i].job_id, skills_detected |-> jobs[i].skills_detected,
         cluster |-> clusters[i]]]

(* The shortcut taken for the empty table only. *)
OnlyEmptyIsTooFew(jobs, n_clusters) == Len(jobs) = 0

(* analysis.py 119-123: fewer postings than clusters. *)
TooFewJobs(jobs, n_clusters) == Len(jobs) < n_clusters

(* The labellings cluster_jobs can take from the library for this call. *)
ClusterOutcomes(jobs, n_clusters) ==
    IF TooFewJobs(jobs, n_clusters) \/ Len(SortedSkills(jobs)) = 0
    THEN {[i \in DOMAIN jobs |-> 0]}
    ELSE KMeansOutcomes(SkillMatrix(jobs), MinOf(n_clusters, Len(jobs)))

(* KMeans.fit raises ValueError when there are fewer rows than clusters. *)
KMeansRaises(n_samples, n_clusters) == n_samples < n_clusters

(* analysis.py 119-176; clusters: what fit_predict returned, when called.  *)
(* The value is the returned table, or raised when an exception escapes.   *)
cluster_jobs(jobs, n_clusters, clusters) ==
    IF TooFewJobs(jobs, n_clusters)
    THEN [raised |-> FALSE, table |-> WithCluster(jobs, [i \in DOMAIN jobs |-> 0])]
    ELSE IF Len(SortedSkills(jobs)) = 0
         THEN [raised |-> FALSE, table |-> WithCluster(jobs, [i \in DOMAIN jobs |-> 0])]
         ELSE IF KMeansRaises(Len(jobs), MinOf(n_clusters, Len(jobs)))
              THEN [raised |-> TRUE, table |-> <<>>]
              ELSE [raised |-> FALSE, table |-> WithCluster(jobs, clusters)]

--------------------------------------------------------------------------
(* Arguments of the calls *)

NumLevel(t) == [kind |-> "num", tenths |-> t, name |-> ""]
StrLevel(n) == [kind |-> "str", tenths |-> 0, name |-> n]

(* Levels a caller may pass: 2.5, 8, "Basic" and an unknown label. *)
LevelValues == {NumLevel(25), NumLevel(80), StrLevel("Basic"), StrLevel("Guru")}

(* skill_levels dicts: the user states a level for Python or for nothing;  *)
(* every other skill of the user has no entry.                             *)
LevelledSkills == {"Python"}

LevelMaps(user_skills) ==
    UNION {[D -> LevelValues] : D \in SUBSET (user_skills \cap LevelledSkills)}

(* The skill sets a user may claim. *)
UserSkillSets == SUBSET {"Python", "SQL"}

Algorithms == {"louvain", "greedy_modularity"}

(* The graphs the Graph Builder makes of a table. *)
GraphsOf(jobs) ==
    {build_bipartite_graph(jobs)}
        \cup {build_skill_cooccurrence_graph(jobs, o) : o \in OrderChoices(jobs)}

(* The caller's list of dicts for a table. *)
RowsOf(jobs) == [i \in DOMAIN jobs |-> jobs[i]]

UniqueIds(jobs) == \A i, j \in DOMAIN jobs : jobs[i].job_id = jobs[j].job_id => i = j

--------------------------------------------------------------------------
(* The state machine *)

Init ==
    /\ jobs_df \in {t \in SeqsUpTo(Postings, Cardinality(JobIds)) : UniqueIds(t)}
    /\ rows = RowsOf(jobs_df)
    /\ call = [op |-> "none"]
    /\ result = "none"

BuildBipartiteGraph ==
    /\ call.op = "none"
    /\ call' = [op |-> "build_bipartite_graph"]
    /\ result' = build_bipartite_graph(jobs_df)
    /\ UNCHANGED <<jobs_df, rows>>

BuildSkillCooccurrenceGraph ==
    /\ call.op = "none"
    /\ \E orders \in OrderChoices(jobs_df) :
          /\ call' = [op |-> "build_skill_cooccurrence_graph"]
          /\ result' = build_skill_cooccurrence_graph(jobs_df, orders)
    /\ UNCHANGED <<jobs_df, rows>>

ComputeCentralities ==
    /\ call.op = "none"
    /\ \E graph \in GraphsOf(jobs_df) :
          \E eig1 \in EigOutcomes(graph) :
          \E eig2 \in IF eig1 = "raised" THEN EigOutcomes(graph) ELSE {"not attempted"} :
             /\ call' = [op |-> "compute_centralities", graph |-> graph]
             /\ result' = compute_centralities(graph, eig1, eig2)
    /\ UNCHANGED <<jobs_df, rows>>

DetectCommunities ==
    /\ call.op = "none"
    /\ \E graph \in GraphsOf(jobs_df), algorithm \in Algorithms,
          louvain_importable \in BOOLEAN :
          \E lib \in ModularityOutcomes(graph) :
             /\ call' = [op |-> "detect_communities", graph |-> graph,
                         algorithm |-> algorithm]
             /\ result' = detect_communities(graph, algorithm, louvain_importable, lib)
    /\ UNCHANGED <<jobs_df, rows>>

ComputeSkillGap ==
    /\ call.op = "none"
    /\ \E user_skills \in UserSkillSets :
          \E skill_levels \in LevelMaps(user_skills) :
             /\ call' = [op |-> "compute_skill_gap", user_skills |-> user_skills,
                         skill_levels |-> skill_levels]
             /\ rows' = ScoredRows(rows, user_skills, skill_levels)
             /\ result' = [rows |-> rows',
                           missing |-> MissingSkills(rows, user_skills)]
    /\ UNCHANGED jobs_df

ClusterJobs ==
    /\ call.op = "none"
    /\ \E n_clusters \in 1..MaxK :
          \E clusters \in ClusterOutcomes(jobs_df, n_clusters) :
             /\ call' = [op |-> "cluster_jobs", n_clusters |-> n_clusters]
             /\ result' = cluster_jobs(jobs_df, n_clusters, clusters)
    /\ UNCHANGED <<jobs_df, rows>>

(* The caller hands the table compute_centralities returned, or that      *)
(* table without its betweenness column, to the Bridge-Skill Selector.     *)
GetBridgeSkills ==
    /\ call.op = "compute_centralities"
    /\ \E centralities_df \in {result, WithoutBetweenness(result)} :
          \E top_n \in 0..MaxTopN :
             /\ call' = [op |-> "get_bridge_skills",
                         centralities_df |-> centralities_df, top_n |-> top_n]
             /\ result' = get_bridge_skills(centralities_df, top_n)
    /\ UNCHANGED <<jobs_df, rows>>

Next ==
    \/ BuildBipartiteGraph
    \/ BuildSkillCooccurrenceGraph
    \/ ComputeCentralities
    \/ DetectCommunities
    \/ ComputeSkillGap
    \/ ClusterJobs
    \/ GetBridgeSkills

Spec == Init /\ [][Next]_vars


--------------------------------------------------------------------------
(* Properties *)

(* The postings whose skill list holds both a and b. *)
PostingsWithBoth(a, b) ==
    {i \in DOMAIN jobs_df : {a, b} \subseteq Range(jobs_df[i].skills_detected)}

(* C1: the co-occurrence graph has the edge {A, B} between two distinct    *)
(* skill names exactly when some posting holds both, the weight of the     *)
(* edge is the number of postings that hold both, every edge has weight    *)
(* >= 1, and no edge is a self-loop or touches anything but a skill name.  *)
C1_CooccurrenceGraph ==
    call.op = "build_skill_cooccurrence_graph" =>
        /\ \A a, b \in SkillNames :
              a # b =>
                 /\ ({a, b} \in result.edges) <=> (PostingsWithBoth(a, b) # {})
                 /\ {a, b} \in result.edges =>
                       result.weight[{a, b}] = Cardinality(PostingsWithBoth(a, b))
        /\ \A e \in result.edges :
              /\ Cardinality(e) = 2
              /\ e \subseteq SkillNames
              /\ result.weight[e] >= 1
        /\ DOMAIN result.weight = result.edges

(* A pair of skills that two postings hold got an edge of weight 2. *)
C1_Witness ==
    /\ call.op = "build_skill_cooccurrence_graph"
    /\ \E e \in result.edges : result.weight[e] = 2

(* C2: every scored posting has n_skills_user_has <= n_skills_job, a       *)
(* match_ratio equal to their quotient and within [0, 1], and a            *)
(* match_ratio of 0 when the posting has no detected skill.                *)
C2_MatchRatio ==
    call.op = "compute_skill_gap" =>
        /\ Len(result.rows) = Len(jobs_df)
        /\ \A i \in DOMAIN result.rows :
              LET r == result.rows[i]
                  job_skills == Range(jobs_df[i].skills_detected)
              IN /\ r.n_skills_job = Cardinality(job_skills)
                 /\ r.n_skills_user_has <= r.n_skills_job
                 /\ r.match_ratio[2] > 0
                 /\ 0 <= r.match_ratio[1]
                 /\ r.match_ratio[1] <= r.match_ratio[2]
                 /\ r.n_skills_job > 0 =>
                       FracEq(r.match_ratio, Frac(r.n_skills_user_has, r.n_skills_job))
                 /\ job_skills = {} => r.match_ratio[1] = 0

(* One posting without skills and one the user matches in part. *)
C2_Witness ==
    /\ call.op = "compute_skill_gap"
    /\ \E i, j \in DOMAIN result.rows :
          /\ jobs_df[i].skills_detected = <<>>
          /\ result.rows[i].match_ratio[1] = 0
          /\ 0 < result.rows[j].match_ratio[1]
          /\ result.rows[j].match_ratio[1] < result.rows[j].match_ratio[2]

(* C3: detect_communities gives every node of the graph one id, a natural  *)
(* number, and ids to nothing else; every id is 0 when the graph has no    *)
(* node or no edge.                                                        *)
C3_CommunitiesPartition ==
    call.op = "detect_communities" =>
        /\ DOMAIN result.communities = NodeSet(call.graph)
        /\ \A node \in NodeSet(call.graph) : result.communities[node] \in Nat
        /\ (call.graph.nodes = <<>> \/ call.graph.edges = {}) =>
              \A node \in NodeSet(call.graph) : result.communities[node] = 0

(* A graph with an edge and at least three nodes was partitioned. *)
C3_Witness ==
    /\ call.op = "detect_communities"
    /\ call.graph.edges # {}
    /\ Len(call.graph.nodes) >= 3
    /\ DOMAIN result.communities = NodeSet(call.graph)

(* C4: on a graph with an edge, the singleton fallback is returned only    *)
(* when the modularity routine itself raised; otherwise the result is the  *)
(* routine's partition.                                                    *)
C4_FallbackOnlyWhenModularityRaises ==
    (call.op = "detect_communities" /\ call.graph.edges # {}) =>
        /\ result.path = "fallback" => result.modularity_raised
        /\ result.path # "fallback" => result.modularity_called

(* C5: cluster_jobs does not raise, returns the postings it was given,     *)
(* each with one cluster id in [0, k), and every id is 0 when there are    *)
(* fewer postings than k or no posting lists anything.                     *)
C5_ClusterJobs ==
    call.op = "cluster_jobs" =>
        /\ ~result.raised
        /\ Len(result.table) = Len(jobs_df)
        /\ \A i \in DOMAIN jobs_df :
              /\ result.table[i].job_id = jobs_df[i].job_id
              /\ result.table[i].skills_detected = jobs_df[i].skills_detected
              /\ result.table[i].cluster \in 0..(call.n_clusters - 1)
        /\ (Len(jobs_df) < call.n_clusters \/ AllSkills(jobs_df) = {}) =>
              \A i \in DOMAIN jobs_df : result.table[i].cluster = 0

(* Two postings were clustered with k = 2 and fell into different clusters. *)
C5_Witness ==
    /\ call.op = "cluster_jobs"
    /\ call.n_clusters = 2
    /\ Len(jobs_df) = 2
    /\ ~result.raised
    /\ result.table[1].cluster # result.table[2].cluster


TwoNodesOneEdge(g) ==
    /\ Len(g.nodes) = 2
    /\ g.edges = {NodeSet(g)}

(* The weight of the only edge of a two-node graph; 1 when it carries none. *)
OnlyEdgeWeight(g) ==
    IF g.weight[NodeSet(g)] = NoWeight THEN 1 ELSE g.weight[NodeSet(g)]

(* C6 as stated: on two nodes joined by one edge, of any weight, both      *)
(* nodes have degree centrality 1, betweenness 0 and closeness 1.          *)
C6_TwoNodeCentralities ==
    (call.op = "compute_centralities" /\ TwoNodesOneEdge(call.graph)) =>
        /\ Len(result.rows) = 2
        /\ \A i \in DOMAIN result.rows :
              /\ FracEq(result.rows[i].degree, Frac(1, 1))
              /\ result.rows[i].betweenness[1] = 0
              /\ FracEq(result.rows[i].closeness, Frac(1, 1))

(* C6 amended: on two nodes joined by one edge both nodes have degree      *)
(* centrality 1, betweenness 0 and closeness 1/w, w the weight of the edge *)
(* (1 when it has none): closeness is 1 only for w = 1.                    *)
C6_TwoNodeCentralitiesAmended ==
    (call.op = "compute_centralities" /\ TwoNodesOneEdge(call.graph)) =>
        /\ Len(result.rows) = 2
        /\ \A i \in DOMAIN result.rows :
              /\ FracEq(result.rows[i].degree, Frac(1, 1))
              /\ result.rows[i].betweenness[1] = 0
              /\ FracEq(result.rows[i].closeness, Frac(1, OnlyEdgeWeight(call.graph)))

(* The centralities of two skills that two postings hold together. *)
C6_Witness ==
    /\ call.op = "compute_centralities"
    /\ TwoNodesOneEdge(call.graph)
    /\ OnlyEdgeWeight(call.graph) = 2
    /\ Len(result.rows) = 2

(* C7: on a graph with nodes and no edge the table has one row per node    *)
(* and degree, betweenness, closeness, eigenvector and weighted degree are *)
(* all 0; on the empty graph the table is empty.                           *)
C7_EdgelessAllZero ==
    (call.op = "compute_centralities" /\ call.graph.edges = {}) =>
        /\ Len(result.rows) = Len(call.graph.nodes)
        /\ {result.rows[i].node : i \in DOMAIN result.rows} = NodeSet(call.graph)
        /\ \A i \in DOMAIN result.rows :
              /\ result.rows[i].degree[1] = 0
              /\ result.rows[i].betweenness[1] = 0
              /\ result.rows[i].closeness[1] = 0
              /\ result.rows[i].eigenvector = 0
              /\ result.rows[i].weighted_degree = 0

(* C8: no call changes the caller's postings: after it the caller's rows   *)
(* hold the keys and values of the batch handed over, and so does the      *)
(* caller's table.                                                         *)
C8_InputsNotMutated ==
    /\ rows = RowsOf(jobs_df)
    /\ \A i \in DOMAIN jobs_df : DOMAIN jobs_df[i] = {"job_id", "skills_detected"}

NamedSkills(skills) == Range(skills) \ {""}

(* C9: the bipartite graph has one job node per identifier, one skill node *)
(* per skill name, the edge {j, s} exactly when s was detected in posting  *)
(* j, and no edge inside one kind (no self-loop either).                   *)
C9_BipartiteGraph ==
    call.op = "build_bipartite_graph" =>
        LET B == result
            ids == {jobs_df[i].job_id : i \in DOMAIN jobs_df}
            skills == UNION {NamedSkills(jobs_df[i].skills_detected) : i \in DOMAIN jobs_df}
        IN /\ Cardinality({n \in NodeSet(B) : B.node_type[n] = "job"}) = Cardinality(ids)
           /\ Cardinality({n \in NodeSet(B) : B.node_type[n] = "skill"}) = Cardinality(skills)
           /\ \A i \in DOMAIN jobs_df :
                 \A s \in NamedSkills(jobs_df[i].skills_detected) :
                    {jobs_df[i].job_id, s} \in B.edges
           /\ \A e \in B.edges :
                 /\ Cardinality(e) = 2
                 /\ \E j \in e, s \in e :
                       /\ B.node_type[j] = "job"
                       /\ B.node_type[s] = "skill"
                       /\ \E i \in DOMAIN jobs_df :
                             /\ jobs_df[i].job_id = j
                             /\ s \in NamedSkills(jobs_df[i].skills_detected)

(* The level the claim gives a skill: an accepted value (1, 2, 3, 4 or     *)
(* Basic .. Expert) as it is, anything else and no entry as 4.             *)
ClaimedLevel(skill_levels, skill) ==
    IF skill \notin DOMAIN skill_levels THEN 4
    ELSE LET level == skill_levels[skill]
         IN IF level.kind = "num"
            THEN (IF level.tenths \in {10, 20, 30, 40} THEN level.tenths \div 10 ELSE 4)
            ELSE (IF level.name \in DOMAIN level_name_to_numeric
                  THEN level_name_to_numeric[level.name] ELSE 4)

(* A number strictly between two accepted values, such as 2.5: the claim   *)
(* does not say which level it counts as, and the formula below leaves the *)
(* sums over such a skill open.                                            *)
LevelLeftOpen(skill_levels, skill) ==
    /\ skill \in DOMAIN skill_levels
    /\ skill_levels[skill].kind = "num"
    /\ skill_levels[skill].tenths > 10
    /\ skill_levels[skill].tenths < 40
    /\ skill_levels[skill].tenths % 10 # 0

(* C10: weighted_match_ratio is the sum over the matched skills of         *)
(* level/4, divided by n_skills_job; it lies in [0, 1] and is at most      *)
(* match_ratio; avg_skill_level is the mean level of the matched skills,   *)
(* within [1, 4], or 0 when no skill matched.                              *)
C10_WeightedMatch ==
    call.op = "compute_skill_gap" =>
        \A i \in DOMAIN result.rows :
           LET r == result.rows[i]
               job_skills == Range(jobs_df[i].skills_detected)
               matched == SetToSeq(job_skills \cap call.user_skills)
               levels == [k \in DOMAIN matched |-> ClaimedLevel(call.skill_levels, matched[k])]
               n == Cardinality(job_skills)
               stated == \A k \in DOMAIN matched : ~LevelLeftOpen(call.skill_levels, matched[k])
           IN /\ r.weighted_match_ratio[2] > 0
              /\ 0 <= r.weighted_match_ratio[1]
              /\ r.weighted_match_ratio[1] <= r.weighted_match_ratio[2]
              /\ FracLe(r.weighted_match_ratio, r.match_ratio)
              /\ (n > 0 /\ stated) =>
                    FracEq(r.weighted_match_ratio, Frac(SumSeq(levels), 4 * n))
              /\ n = 0 => r.weighted_match_ratio[1] = 0
              /\ matched = <<>> => r.avg_skill_level[1] = 0
              /\ matched # <<>> =>
                    /\ stated => FracEq(r.avg_skill_level, Frac(SumSeq(levels), Len(matched)))
                    /\ FracLe(Frac(1, 1), r.avg_skill_level)
                    /\ FracLe(r.avg_skill_level, Frac(4, 1))

(* The postings whose skill list holds skill s. *)
PostingsWith(s) ==
    {i \in DOMAIN jobs_df : s \in Range(jobs_df[i].skills_detected)}

(* C11: the missing-skill list holds, exactly once each, the skills that   *)
(* occur in some posting and are not in the user's set, and no other       *)
(* skill; the count of an entry is the number of postings that hold the    *)
(* skill, a skill repeated inside one posting counted once; the entries    *)
(* are in non-increasing order of count.  An entry for the empty string    *)
(* is neither required nor forbidden.                                      *)
C11_MissingSkills ==
    call.op = "compute_skill_gap" =>
        LET missing == result.missing
            listed == [i \in DOMAIN missing |-> missing[i].skill]
        IN /\ \A s \in SkillNames :
                 Occurrences(listed, s) =
                     IF PostingsWith(s) # {} /\ s \notin call.user_skills THEN 1 ELSE 0
           /\ \A i \in DOMAIN missing :
                 missing[i].skill \in SkillNames =>
                    missing[i].count = Cardinality(PostingsWith(missing[i].skill))
           /\ \A i, j \in DOMAIN missing :
                 i < j => missing[i].count >= missing[j].count

HasBetweenness(table) == "betweenness" \in Range(table.columns)

(* C12: get_bridge_skills(table, n) raises nothing; on a table without a   *)
(* betweenness column it returns an empty result; otherwise it returns     *)
(* min(n, number of rows) rows (all of them when the table has fewer than  *)
(* n), each the (node, betweenness, degree) projection of a different row  *)
(* of the table, in non-increasing betweenness order, and no row left out  *)
(* has a larger betweenness than a row returned.                           *)
C12_BridgeSkills ==
    call.op = "get_bridge_skills" =>
        LET table == call.centralities_df
            n == call.top_n
            out == result.table.rows
            chosen == {out[i].node : i \in DOMAIN out}
        IN /\ ~result.raised
           /\ ~HasBetweenness(table) => out = <<>>
           /\ HasBetweenness(table) =>
                 /\ Len(out) = MinOf(n, Len(table.rows))
                 /\ Len(table.rows) < n => Len(out) = Len(table.rows)
                 /\ result.table.columns = <<"node", "betweenness", "degree">>
                 /\ Cardinality(chosen) = Len(out)
                 /\ \A i \in DOMAIN out :
                       \E k \in DOMAIN table.rows :
                          /\ table.rows[k].node = out[i].node
                          /\ table.rows[k].betweenness = out[i].betweenness
                          /\ table.rows[k].degree = out[i].degree
                 /\ \A i, j \in DOMAIN out :
                       i < j => FracLe(out[j].betweenness, out[i].betweenness)
                 /\ \A k \in DOMAIN table.rows :
                       table.rows[k].node \notin chosen =>
                          \A i \in DOMAIN out :
                             FracLe(table.rows[k].betweenness, out[i].betweenness)

====
